---- MODULE Spec2Model ----
(***************************************************************************)
(* Model of benchmarking/plot.py: the script that globs the JSON files of  *)
(* benchmarking/data, sorts them, and overlays one line+scatter series per *)
(* (file, gate) on a 2x3 grid of matplotlib axes.                          *)
(*                                                                         *)
(* File names and paths are sequences of tokens ("A", ".json", "/", ...),  *)
(* so that split("/")[-1], replace(".json","") and list.sort() are         *)
(* computed rather than assumed.  No token is a prefix of another token    *)
(* that can stand at the same position, so token-wise lexicographic order  *)
(* coincides with Python's character-wise string order.                    *)
(***************************************************************************)
EXTENDS Integers, Sequences, FiniteSets, TLC

VARIABLES fs, listing, resultFiles, ignoreList, labelsDict, colorsDict, dataDict,
          axs, pc, fi, gi, fName, shown, processed

vars == <<fs, listing, resultFiles, ignoreList, labelsDict, colorsDict, dataDict,
          axs, pc, fi, gi, fName, shown, processed>>

(* ---------------------------- bounds ----------------------------------- *)
MaxFiles == 3

(* ------------------------ program constants ---------------------------- *)
path == <<"benchmarking", "/", "data">>

gatesList == <<"X", "H", "T", "CNOT", "Y">>

NRows == 2
NCols == 3

Cells == (0..(NRows - 1)) \X (0..(NCols - 1))

LabelsInit == [n \in {<<"dataYao_target=1">>} |-> <<"Yao">>]

ColorsInit == [n \in {<<"dataYao_target=1">>} |-> "#C71585"]

(* matplotlib's default property cycle ("next color in default cycle") *)
DefaultCycle == <<"#1f77b4", "#ff7f0e", "#2ca02c", "#d62728", "#9467bd",
                  "#8c564b", "#e377c2", "#7f7f7f", "#bcbd22", "#17becf">>

(* ------------------------------ inputs --------------------------------- *)
(* Names of files that "*.json" can match in the data directory. *)
FileNames == { <<"A", ".json">>,
               <<"A", ".json", ".json">>,
               <<"B", ".json">>,
               <<"dataYao_target=1", ".json">> }

Full == {"nqubits", "times"}

EmptyRec == [g \in {} |-> Full]

(* A file's content: ok = json.load succeeds, rec = the parsed mapping     *)
(* gate name -> set of keys present in that gate's entry.                  *)
Contents ==
  { [ok |-> FALSE, rec |-> EmptyRec],
    [ok |-> TRUE,  rec |-> EmptyRec],
    [ok |-> TRUE,  rec |-> [g \in {"X", "H"} |-> Full]],
    [ok |-> TRUE,  rec |-> [g \in {"H", "Y", "Z"} |->
                               IF g = "Z" THEN {"times"} ELSE Full]],
    [ok |-> TRUE,  rec |-> [g \in {"X", "H"} |->
                               IF g = "H" THEN {"times"} ELSE Full]],
    [ok |-> TRUE,  rec |-> [g \in {"Y"} |-> {"nqubits"}]] }

IgnoreChoices == SUBSET { <<"A">>, <<"B">> }

(* --------------------------- pure helpers ------------------------------ *)
Min(a, b) == IF a < b THEN a ELSE b

(* Code-point rank of the first character of each token. *)
Rank(t) ==
  CASE t = ".json"            -> 46
    [] t = "/"                -> 47
    [] t = "A"                -> 65
    [] t = "B"                -> 66
    [] t = "benchmarking"     -> 98
    [] t = "data"             -> 100
    [] t = "dataYao_target=1" -> 101

RECURSIVE StrLess(_, _)
StrLess(s, t) ==
  IF s = <<>> THEN t # <<>>
  ELSE IF t = <<>> THEN FALSE
  ELSE IF Rank(Head(s)) < Rank(Head(t)) THEN TRUE
  ELSE IF Rank(Head(s)) > Rank(Head(t)) THEN FALSE
  ELSE StrLess(Tail(s), Tail(t))

RECURSIVE Insert(_, _)
Insert(x, s) ==
  IF s = <<>> THEN <<x>>
  ELSE IF StrLess(Head(s), x) THEN <<Head(s)>> \o Insert(x, Tail(s))
  ELSE <<x>> \o s

SortListNoop(s) == s

RECURSIVE SortList(_)
SortList(s) == IF s = <<>> THEN <<>> ELSE Insert(Head(s), SortList(Tail(s)))

(* path + '/' + file name *)
PathOf(f) == path \o <<"/">> \o f

(* fPath.split("/")[-1] *)
RECURSIVE SplitLast(_)
SplitLast(p) ==
  IF \E i \in 1..Len(p) : p[i] = "/"
  THEN SplitLast(Tail(p))
  ELSE p

(* s.replace(".json", "") *)
ReplaceJson(s) == SelectSeq(s, LAMBDA t : t # ".json")

DeriveName(p) == ReplaceJson(SplitLast(p))

Put(d, k, v) == [x \in (DOMAIN d) \cup {k} |-> IF x = k THEN v ELSE d[x]]

RavelColMajor(k) == <<(k - 1) % NRows, (k - 1) \div NRows>>

(* axs.ravel(): row-major flattening, k = 1..NRows*NCols *)
Ravel(k) == <<(k - 1) \div NCols, (k - 1) % NCols>>

(* zip(axs.ravel(), gatesList) stops at the shorter of the two *)
ZipLen == Min(NRows * NCols, Len(gatesList))

BlankAxes == [lines |-> <<>>, scatters |-> <<>>, cyc |-> 0,
              yscale |-> "linear", hasLegend |-> FALSE, legend |-> <<>>,
              title |-> <<>>, grid |-> FALSE, xlabel |-> "", ylabel |-> ""]

NextCycleColor(ax) == DefaultCycle[(ax.cyc % Len(DefaultCycle)) + 1]

LabelsOf(lines) == [i \in 1..Len(lines) |-> lines[i].label]

(* legend built before the series of this iteration is on the axes *)
DecorateLegendFirst(ax, gate) ==
  [ax EXCEPT !.yscale = "log",
             !.hasLegend = TRUE,
             !.legend = LabelsOf(SubSeq(ax.lines, 1, Len(ax.lines) - 1)),
             !.title = <<gate, " gate">>,
             !.grid = TRUE,
             !.xlabel = "n qubits",
             !.ylabel = "time (ns)"]

(* ax.set_yscale .. ax.set_ylabel of lines 82-89 *)
Decorate(ax, gate) ==
  [ax EXCEPT !.yscale = "log",
             !.hasLegend = TRUE,
             !.legend = LabelsOf(ax.lines),
             !.title = <<gate, " gate">>,
             !.grid = TRUE,
             !.xlabel = "n qubits",
             !.ylabel = "time (ns)"]

(* ax.plot(..., label=..) with no color: takes the axes' next cycle color *)
PlotAuto(ax, p, name, label) ==
  [ax EXCEPT !.lines = Append(@, [path |-> p, name |-> name, label |-> label,
                                  color |-> NextCycleColor(ax), auto |-> TRUE]),
             !.cyc = @ + 1]

PlotColorAdvancing(ax, p, name, label, c) ==
  [ax EXCEPT !.lines = Append(@, [path |-> p, name |-> name, label |-> label,
                                  color |-> c, auto |-> FALSE]),
             !.cyc = @ + 1]

(* ax.plot(..., color=c): the property cycle is not advanced *)
PlotColor(ax, p, name, label, c) ==
  [ax EXCEPT !.lines = Append(@, [path |-> p, name |-> name, label |-> label,
                                  color |-> c, auto |-> FALSE])]

(* ax.scatter(..., color=c, s=markerSize): unlabelled collection *)
Scatter(ax, p, c) ==
  [ax EXCEPT !.scatters = Append(@, [path |-> p, color |-> c])]

Perms(S) == { s \in [1..Cardinality(S) -> S] :
                \A i, j \in 1..Cardinality(S) : i # j => s[i] # s[j] }

(* ------------------------------ Init ----------------------------------- *)
Init ==
  /\ \E S \in SUBSET FileNames :
       /\ Cardinality(S) <= MaxFiles
       /\ fs \in [S -> Contents]
       /\ listing \in Perms({PathOf(f) : f \in S})
  /\ resultFiles = listing
  /\ ignoreList \in IgnoreChoices
  /\ labelsDict = LabelsInit
  /\ colorsDict = ColorsInit
  /\ dataDict = [n \in {} |-> EmptyRec]
  /\ axs = [c \in Cells |-> BlankAxes]
  /\ pc = "sort"
  /\ fi = 1
  /\ gi = 1
  /\ fName = <<>>
  /\ shown = 0
  /\ processed = <<>>

(* ----------------------------- actions --------------------------------- *)
curPath == resultFiles[fi]
curFile == SplitLast(curPath)
curGate == gatesList[gi]
curCell == Ravel(gi)

(* resultFiles.sort() *)
Sort ==
  /\ pc = "sort"
  /\ resultFiles' = SortList(resultFiles)
  /\ pc' = "file"
  /\ UNCHANGED <<fs, listing, ignoreList, labelsDict, colorsDict, dataDict, axs,
                 fi, gi, fName, shown, processed>>

(* the ignore test placed after the default-label update *)
SkipIgnoredLate ==
  /\ pc = "file"
  /\ fi <= Len(resultFiles)
  /\ DeriveName(curPath) \in ignoreList
  /\ fName' = DeriveName(curPath)
  /\ processed' = Append(processed, curPath)
  /\ labelsDict' = Put(labelsDict, DeriveName(curPath), DeriveName(curPath))
  /\ fi' = fi + 1
  /\ UNCHANGED <<fs, listing, resultFiles, ignoreList, colorsDict,
                 dataDict, axs, pc, gi, shown>>

(* for fPath in resultFiles: ... if fName in ignoreList: continue *)
SkipIgnored ==
  /\ pc = "file"
  /\ fi <= Len(resultFiles)
  /\ DeriveName(curPath) \in ignoreList
  /\ fName' = DeriveName(curPath)
  /\ processed' = Append(processed, curPath)
  /\ fi' = fi + 1
  /\ UNCHANGED <<fs, listing, resultFiles, ignoreList, labelsDict, colorsDict,
                 dataDict, axs, pc, gi, shown>>

DefaultLabelOverwrite(d, n) == Put(d, n, n)

DefaultLabel(d, n) == IF n \in DOMAIN d THEN d ELSE Put(d, n, n)

(* open/json.load raises: the script terminates with a traceback *)
LoadFail ==
  /\ pc = "file"
  /\ fi <= Len(resultFiles)
  /\ DeriveName(curPath) \notin ignoreList
  /\ ~fs[curFile].ok
  /\ fName' = DeriveName(curPath)
  /\ processed' = Append(processed, curPath)
  /\ labelsDict' = DefaultLabel(labelsDict, DeriveName(curPath))
  /\ pc' = "aborted"
  /\ UNCHANGED <<fs, listing, resultFiles, ignoreList, colorsDict, dataDict, axs,
                 fi, gi, shown>>

LoadOk ==
  /\ pc = "file"
  /\ fi <= Len(resultFiles)
  /\ DeriveName(curPath) \notin ignoreList
  /\ fs[curFile].ok
  /\ fName' = DeriveName(curPath)
  /\ processed' = Append(processed, curPath)
  /\ labelsDict' = DefaultLabel(labelsDict, DeriveName(curPath))
  /\ dataDict' = Put(dataDict, DeriveName(curPath), fs[curFile].rec)
  /\ gi' = 1
  /\ pc' = "gate"
  /\ UNCHANGED <<fs, listing, resultFiles, ignoreList, colorsDict, axs, fi, shown>>

(* if gate in dataDict[fName].keys(): false *)
SkipGate ==
  /\ pc = "gate"
  /\ gi <= ZipLen
  /\ curGate \notin DOMAIN dataDict[fName]
  /\ gi' = gi + 1
  /\ UNCHANGED <<fs, listing, resultFiles, ignoreList, labelsDict, colorsDict,
                 dataDict, axs, pc, fi, fName, shown, processed>>

(* the missing key is swallowed and the loop goes on *)
AbortKeySwallowed ==
  /\ pc = "gate"
  /\ gi <= ZipLen
  /\ curGate \in DOMAIN dataDict[fName]
  /\ ~(Full \subseteq dataDict[fName][curGate])
  /\ gi' = gi + 1
  /\ UNCHANGED <<fs, listing, resultFiles, ignoreList, labelsDict, colorsDict,
                 dataDict, axs, pc, fi, fName, shown, processed>>

(* dataDict[fName][gate]["nqubits"] / ["times"] raises KeyError while the  *)
(* arguments of ax.plot are evaluated: nothing is drawn for this pair.     *)
AbortKey ==
  /\ pc = "gate"
  /\ gi <= ZipLen
  /\ curGate \in DOMAIN dataDict[fName]
  /\ ~(Full \subseteq dataDict[fName][curGate])
  /\ pc' = "aborted"
  /\ UNCHANGED <<fs, listing, resultFiles, ignoreList, labelsDict, colorsDict,
                 dataDict, axs, fi, gi, fName, shown, processed>>

UsesCaptureAlways(cd, n) == TRUE

UsesCapture(cd, n) == n \notin DOMAIN cd

(* fName not in colorsDict: plot without color, capture line[0].get_c() *)
DrawAuto ==
  /\ pc = "gate"
  /\ gi <= ZipLen
  /\ curGate \in DOMAIN dataDict[fName]
  /\ Full \subseteq dataDict[fName][curGate]
  /\ UsesCapture(colorsDict, fName)
  /\ LET a1 == PlotAuto(axs[curCell], curPath, fName, labelsDict[fName])
         c  == a1.lines[Len(a1.lines)].color
         a2 == Scatter(a1, curPath, c)
     IN  /\ colorsDict' = Put(colorsDict, fName, c)
         /\ axs' = [axs EXCEPT ![curCell] = Decorate(a2, curGate)]
  /\ gi' = gi + 1
  /\ UNCHANGED <<fs, listing, resultFiles, ignoreList, labelsDict, dataDict, pc, fi,
                 fName, shown, processed>>

(* else: plot and scatter with color=colorsDict[fName] *)
DrawPinned ==
  /\ pc = "gate"
  /\ gi <= ZipLen
  /\ curGate \in DOMAIN dataDict[fName]
  /\ Full \subseteq dataDict[fName][curGate]
  /\ ~UsesCapture(colorsDict, fName)
  /\ LET a1 == PlotColor(axs[curCell], curPath, fName, labelsDict[fName],
                         colorsDict[fName])
         a2 == Scatter(a1, curPath, colorsDict[fName])
     IN  axs' = [axs EXCEPT ![curCell] = Decorate(a2, curGate)]
  /\ gi' = gi + 1
  /\ UNCHANGED <<fs, listing, resultFiles, ignoreList, labelsDict, colorsDict,
                 dataDict, pc, fi, fName, shown, processed>>

(* zip exhausted: next iteration of the file loop *)
EndGates ==
  /\ pc = "gate"
  /\ gi > ZipLen
  /\ fi' = fi + 1
  /\ pc' = "file"
  /\ UNCHANGED <<fs, listing, resultFiles, ignoreList, labelsDict, colorsDict,
                 dataDict, axs, gi, fName, shown, processed>>

(* plt.tight_layout(); plt.show() *)
Show ==
  /\ pc = "file"
  /\ fi > Len(resultFiles)
  /\ shown' = shown + 1
  /\ pc' = "done"
  /\ UNCHANGED <<fs, listing, resultFiles, ignoreList, labelsDict, colorsDict,
                 dataDict, axs, fi, gi, fName, processed>>

Next ==
  \/ Sort
  \/ SkipIgnored
  \/ LoadFail
  \/ LoadOk
  \/ SkipGate
  \/ AbortKey
  \/ DrawAuto
  \/ DrawPinned
  \/ EndGates
  \/ Show

Spec == Init /\ [][Next]_vars


(* ====================== properties of the script ======================= *)
LineIdx(c) == 1..Len(axs[c].lines)

(* position of a grid cell counted row by row, starting at 1 *)
GridPos(c) == c[1] * 3 + c[2] + 1

FileOfPath(p) == SubSeq(p, Len(path) + 2, Len(p))

(* the file stem: every name of FileNames is one stem then ".json" tokens *)
Stem(f) == <<f[1]>>

Ignored(p) == Stem(FileOfPath(p)) \in ignoreList

BadEntry(rec, g) == g \in DOMAIN rec /\ ~(Full \subseteq rec[g])

(* a file at which the run stops *)
Fails(f) ==
  /\ Stem(f) \notin ignoreList
  /\ \/ ~fs[f].ok
     \/ \E k \in 1..Len(gatesList) : BadEntry(fs[f].rec, gatesList[k])

FailFree == \A f \in DOMAIN fs : ~Fails(f)

PosIn(seq, x) == CHOOSE i \in 1..Len(seq) : seq[i] = x

Overridden(n) == n \in DOMAIN ColorsInit

AutoCount(c) == Cardinality({i \in LineIdx(c) : axs[c].lines[i].auto})

(* ---------------------------------------------------------------------- *)
(* C1: when the run completes, the series drawn are exactly the pairs     *)
(* (file, gate) with the gate in the gate list, the gate key in the       *)
(* file's record and the source name not ignored; each is drawn once, on  *)
(* the cell at the gate's row-major position, with its scatter, and the   *)
(* sixth cell stays empty.                                                *)
DrawnPairs ==
  UNION { { <<axs[c].lines[i].path, axs[c].lines[i].name, GridPos(c)>> :
              i \in LineIdx(c) } : c \in Cells }

ExpectedPairs ==
  UNION { { <<PathOf(f), Stem(f), k>> :
              k \in { j \in 1..Len(gatesList) :
                        gatesList[j] \in DOMAIN fs[f].rec } } :
          f \in { g \in DOMAIN fs : Stem(g) \notin ignoreList } }

C1_DrawnExactly ==
  pc = "done" =>
    /\ DrawnPairs = ExpectedPairs
    /\ \A c \in Cells :
         /\ Len(axs[c].lines) =
              Cardinality({ axs[c].lines[i].path : i \in LineIdx(c) })
         /\ Len(axs[c].scatters) = Len(axs[c].lines)
         /\ \A i \in LineIdx(c) :
              axs[c].scatters[i].path = axs[c].lines[i].path
    /\ axs[<<1, 2>>].lines = <<>>
    /\ axs[<<1, 2>>].scatters = <<>>

(* a completed run with an ignored file, a source drawn on the last gate  *)
(* but absent from the first, and two series on one cell                  *)
C1_Witness ==
  /\ pc = "done"
  /\ \E f \in DOMAIN fs : Stem(f) \in ignoreList
  /\ \E i \in LineIdx(<<1, 1>>) :
       "X" \notin DOMAIN fs[FileOfPath(axs[<<1, 1>>].lines[i].path)].rec
  /\ \E c \in Cells : Len(axs[c].lines) >= 2

(* ---------------------------------------------------------------------- *)
(* C2: for a source without a color override, scatter and line have the   *)
(* same color on every gate, that color is the style-map entry, the entry *)
(* is the color of the line captured on the first gate (in gate-list      *)
(* order) of a file of that name, and an entry once set never changes.    *)
FirstGate(rec) ==
  CHOOSE k \in 1..Len(gatesList) :
    /\ gatesList[k] \in DOMAIN rec
    /\ \A j \in 1..(k - 1) : gatesList[j] \notin DOMAIN rec

C2_Colors ==
  /\ \A c \in Cells : \A i \in LineIdx(c) :
       LET l == axs[c].lines[i] IN
       ~Overridden(l.name) =>
         /\ i <= Len(axs[c].scatters)
         /\ axs[c].scatters[i].color = l.color
         /\ l.name \in DOMAIN colorsDict
         /\ colorsDict[l.name] = l.color
  /\ \A n \in DOMAIN colorsDict :
       ~Overridden(n) =>
         \E c \in Cells : \E i \in LineIdx(c) :
           LET l == axs[c].lines[i] IN
           /\ l.name = n
           /\ l.auto
           /\ l.color = colorsDict[n]
           /\ GridPos(c) = FirstGate(fs[FileOfPath(l.path)].rec)

C2_Stable ==
  \A n \in DOMAIN colorsDict :
    n \in DOMAIN colorsDict' /\ colorsDict'[n] = colorsDict[n]

C2_ColorReuse == []C2_Colors /\ [][C2_Stable]_vars

(* a non-overridden source drawn on two cells, the second draw on a cell  *)
(* whose cycle stands elsewhere than the captured color                   *)
C2_Witness ==
  \E c, d \in Cells : \E i \in LineIdx(c) : \E j \in LineIdx(d) :
    /\ c # d
    /\ axs[c].lines[i].path = axs[d].lines[j].path
    /\ ~Overridden(axs[c].lines[i].name)
    /\ axs[c].lines[i].auto
    /\ ~axs[d].lines[j].auto
    /\ NextCycleColor(axs[d]) # axs[d].lines[j].color

(* ---------------------------------------------------------------------- *)
(* C3: two sources of different names, neither with a color override,     *)
(* drawn on the same subplot have different colors there.                 *)
C3_DistinctColors ==
  \A c \in Cells : \A i, j \in LineIdx(c) :
    LET l == axs[c].lines[i]
        m == axs[c].lines[j] IN
    (l.name # m.name /\ ~Overridden(l.name) /\ ~Overridden(m.name))
      => l.color # m.color

(* ---------------------------------------------------------------------- *)
(* C4: the label of every series is the override when the source name is  *)
(* a key of the initial label map, else the file name without directory   *)
(* and ".json"; the initial entries of the label map never change.        *)
C4_Labels ==
  /\ \A c \in Cells : \A i \in LineIdx(c) :
       LET l == axs[c].lines[i] IN
       /\ l.name = Stem(FileOfPath(l.path))
       /\ l.label = IF l.name \in DOMAIN LabelsInit
                    THEN LabelsInit[l.name] ELSE l.name
  /\ \A n \in DOMAIN LabelsInit :
       n \in DOMAIN labelsDict /\ labelsDict[n] = LabelsInit[n]

(* one subplot carrying an overridden label and a derived one, the        *)
(* derived one from a file name with ".json" twice                        *)
C4_Witness ==
  \E c \in Cells : \E i, j \in LineIdx(c) :
    /\ axs[c].lines[i].label = <<"Yao">>
    /\ axs[c].lines[j].label = <<"A">>
    /\ FileOfPath(axs[c].lines[j].path) = <<"A", ".json", ".json">>

(* ---------------------------------------------------------------------- *)
(* C5: an ignored source is never drawn, and the loop iteration that      *)
(* meets it leaves the style maps, the loaded data, every subplot and     *)
(* every color cycle as they were (so the rest of the run is the run      *)
(* without that file).                                                    *)
C5_NotDrawn ==
  \A c \in Cells :
    /\ \A i \in LineIdx(c) : axs[c].lines[i].name \notin ignoreList
    /\ \A i \in 1..Len(axs[c].scatters) : ~Ignored(axs[c].scatters[i].path)

C5_Frame ==
  (pc = "file" /\ fi <= Len(resultFiles) /\ Ignored(resultFiles[fi]))
    => /\ UNCHANGED <<labelsDict, colorsDict, dataDict, axs, shown>>
       /\ pc' = "file"
       /\ fi' = fi + 1

C5_IgnoreFrame == []C5_NotDrawn /\ [][C5_Frame]_vars

(* an ignored file was passed over between two drawn sources *)
C5_Witness ==
  /\ pc = "done"
  /\ Len(processed) = 3
  /\ Ignored(processed[2])
  /\ \E c \in Cells : Len(axs[c].lines) = 2

(* ---------------------------------------------------------------------- *)
(* C6: a failing load or a present gate entry lacking "nqubits"/"times"   *)
(* stops the run there: nothing after it is processed or drawn and the    *)
(* display is not reached; without such a failure the run ends with the   *)
(* display reached exactly once after every file.                         *)
FirstFailIdx ==
  CHOOSE i \in 1..Len(resultFiles) :
    /\ Fails(FileOfPath(resultFiles[i]))
    /\ \A j \in 1..(i - 1) : ~Fails(FileOfPath(resultFiles[j]))

FailGate(rec) ==
  CHOOSE k \in 1..Len(gatesList) :
    /\ BadEntry(rec, gatesList[k])
    /\ \A j \in 1..(k - 1) : ~BadEntry(rec, gatesList[j])

C6_State ==
  /\ shown <= 1
  /\ shown = 1 <=> pc = "done"
  /\ pc = "done" => (FailFree /\ processed = resultFiles)
  /\ pc = "aborted" =>
       /\ ~FailFree
       /\ fi = FirstFailIdx
       /\ processed = SubSeq(resultFiles, 1, FirstFailIdx)
  /\ (pc # "sort" /\ ~FailFree) =>
       \A c \in Cells : \A i \in LineIdx(c) :
         LET l == axs[c].lines[i]
             k == PosIn(resultFiles, l.path) IN
         /\ k <= FirstFailIdx
         /\ (k = FirstFailIdx =>
               GridPos(c) < FailGate(fs[FileOfPath(l.path)].rec))

(* the script stops exactly at the traceback or after the display *)
C6_Runs == pc # "sort" => (pc \in {"aborted", "done"} <=> ~ENABLED Next)

C6_AbortOrShow == C6_State /\ C6_Runs

(* a run stopped by a missing key on the second gate of its second file,  *)
(* with a third file never reached                                        *)
C6_Witness ==
  /\ pc = "aborted"
  /\ fi = 2
  /\ gi = 2
  /\ Len(resultFiles) = 3
  /\ Len(axs[<<0, 0>>].lines) = 2

(* ---------------------------------------------------------------------- *)
(* C7: when the run completes, every subplot of a gate of the gate list   *)
(* has a log y-axis, a legend, the title "<gate> gate", a grid and both   *)
(* axis labels.                                                           *)
C7_AllDecorated ==
  pc = "done" =>
    \A k \in 1..Len(gatesList) :
      \E c \in Cells :
        /\ GridPos(c) = k
        /\ axs[c].yscale = "log"
        /\ axs[c].hasLegend
        /\ axs[c].title = <<gatesList[k], " gate">>
        /\ axs[c].grid
        /\ axs[c].xlabel = "n qubits"
        /\ axs[c].ylabel = "time (ns)"

C9_State ==
  pc # "sort" =>
    /\ Len(resultFiles) = Len(listing)
    /\ { resultFiles[i] : i \in 1..Len(resultFiles) }
         = { listing[i] : i \in 1..Len(listing) }
    /\ \A i, j \in 1..Len(resultFiles) :
         i < j => StrLess(FileOfPath(resultFiles[i]),
                          FileOfPath(resultFiles[j]))
    /\ Len(processed) <= Len(resultFiles)
    /\ processed = SubSeq(resultFiles, 1, Len(processed))
    /\ pc = "done" => processed = resultFiles
    /\ \A c \in Cells :
         LET auto == SelectSeq(axs[c].lines, LAMBDA l : l.auto) IN
         \A i \in 1..Len(auto) :
           /\ auto[i].color = DefaultCycle[((i - 1) % Len(DefaultCycle)) + 1]
           /\ \A j \in 1..(i - 1) :
                StrLess(FileOfPath(auto[j].path), FileOfPath(auto[i].path))

C9_Step ==
  /\ fi' \in {fi, fi + 1}
  /\ (pc = "gate" /\ pc' = "gate") => gi' = gi + 1
  /\ (pc = "file" /\ pc' = "gate") => gi' = 1
  /\ Len(processed') > Len(processed) =>
       processed' = Append(processed, resultFiles[fi])

C9_SortedOrder == []C9_State /\ [][C9_Step]_vars

(* the directory listing came back unsorted and two sources took          *)
(* automatic colors on one subplot                                        *)
C9_Witness ==
  /\ pc = "done"
  /\ listing # resultFiles
  /\ \E c \in Cells : AutoCount(c) >= 2

(* ---------------------------------------------------------------------- *)
(* C10: a source with a color override is drawn, line and scatter, in the *)
(* override color on every subplot, never through the capture branch; its *)
(* color-map entry stays as it was and its draws advance no color cycle.  *)
C10_State ==
  /\ \A n \in DOMAIN ColorsInit :
       n \in DOMAIN colorsDict /\ colorsDict[n] = ColorsInit[n]
  /\ \A c \in Cells :
       /\ axs[c].cyc = AutoCount(c)
       /\ \A i \in LineIdx(c) :
            LET l == axs[c].lines[i] IN
            Overridden(l.name) =>
              /\ l.color = ColorsInit[l.name]
              /\ ~l.auto
              /\ axs[c].scatters[i].color = ColorsInit[l.name]

C10_Step ==
  (pc = "gate" /\ Overridden(fName)) =>
    \A c \in Cells : axs'[c].cyc = axs[c].cyc

C10_Override == []C10_State /\ [][C10_Step]_vars

(* the overridden source drawn on a subplot where another source took the *)
(* first automatic color, and on a second subplot too                     *)
C10_Witness ==
  /\ \E c \in Cells : \E i, j \in LineIdx(c) :
       /\ Overridden(axs[c].lines[j].name)
       /\ axs[c].lines[i].auto
       /\ axs[c].cyc = 1
  /\ Cardinality({ c \in Cells : \E i \in LineIdx(c) :
                     Overridden(axs[c].lines[i].name) }) >= 2

====
